---- MODULE Spec2Model ----
(***************************************************************************)
(* Model of src/main.py: the POST /register/ pipeline.                     *)
(*                                                                         *)
(* Each request is handled on its own thread (a sync FastAPI handler), so  *)
(* the steps of different requests interleave.  A request touches the      *)
(* shared table `users` at three places: the duplicate query (line 87),    *)
(* the INSERT+COMMIT (lines 107-108) and the refresh (line 109).  The      *)
(* handler is cut into one action per such place; the local computation    *)
(* between two places (hashing, building the record) belongs to the        *)
(* action that precedes it.                                                *)
(***************************************************************************)
EXTENDS Integers, FiniteSets, Sequences, TLC

\* ------------------------------------------------------------------ bounds

\* Number of register requests that arrive.
NumRequests == 2

Requests == 1..NumRequests

\* Values a client can put in the JSON body.  Missing stands for an absent
\* or non-string field, BadEmail for a string EmailStr rejects.
Missing == "missing"
BadEmail == "not-an-email"
Usernames == {"u1", "u2"}
Emails == {"e1@x.com", "e2@x.com"}
Passwords == {"p1", "p2"}

\* The bodies that can arrive: every well-formed one and two malformed ones.
Bodies ==
  [username : Usernames, email : Emails, password : Passwords]
    \cup {[username |-> Missing, email |-> "e1@x.com", password |-> "p1"],
          [username |-> "u1", email |-> BadEmail, password |-> "p1"]}

\* Python's None where a string is expected (no exception, no body yet).
None == "None"

\* id of a User object that was never flushed (Column id, not yet assigned).
NoId == 0

\* Values of the per-request slots before the request has set them.
NoBody == [username |-> Missing, email |-> BadEmail, password |-> None]
NoRecord == [id |-> NoId, username |-> None, email |-> None, hashed_password |-> <<>>]
NoResponse == [id |-> NoId, username |-> None, email |-> None]

\* ------------------------------------------------------- program constants

HTTP_201_CREATED == 201
HTTP_400_BAD_REQUEST == 400

\* ------------------------------------------------------------------- state

VARIABLES
  users,            \* the rows of table "users" (committed)
  pc,               \* where each request is in the handler
  user_data,        \* the body each request carries
  new_user_record,  \* the User object of each request's session
  db,               \* each request's session: "none", "open", "closed"
  status,           \* HTTP status sent for each request (0: none yet)
  uncaught,         \* exception that left the handler untranslated
  response          \* the body returned on success

vars == <<users, pc, user_data, new_user_record, db, status, uncaught, response>>

\* ----------------------------------------------------------------- helpers

\* UserCreate: username: str, email: EmailStr, password: str.
UserCreate(d) ==
  /\ d.username \in Usernames
  /\ d.email \in Emails
  /\ d.password \in Passwords

\* pwd_context.hash: the stored string is derived from the password and is
\* not the password.
pwd_context_hash(p) == <<"bcrypt", p>>

\* User(username=..., email=..., hashed_password=...): id is not set.
User(d) ==
  [id |-> NoId,
   username |-> d.username,
   email |-> d.email,
   hashed_password |-> pwd_context_hash(d.password)]

\* db.query(User).filter(User.email == user_data.email).first() is truthy.
existing_user_ByUsername(tbl, d) == \E row \in tbl : row.username = d.username

existing_user(tbl, d) == \E row \in tbl : row.email = d.email

\* The UNIQUE constraints of the table: username and email.
UniqueOK_EmailNotUnique(tbl, rec) == \A row \in tbl : row.username # rec.username

UniqueOK_PasswordUnique(tbl, rec) ==
  \A row \in tbl :
    /\ row.username # rec.username
    /\ row.email # rec.email
    /\ row.hashed_password # rec.hashed_password

UniqueOK(tbl, rec) ==
  \A row \in tbl :
    /\ row.username # rec.username
    /\ row.email # rec.email

Max(S) == CHOOSE m \in S : \A x \in S : x <= m

\* INTEGER PRIMARY KEY: the database assigns the next rowid.
NextId_Constant(tbl) == 1

NextId(tbl) == IF tbl = {} THEN 1 ELSE Max({row.id : row \in tbl}) + 1

\* The row the INSERT writes for a pending record.
Inserted(tbl, rec) == [rec EXCEPT !.id = NextId(tbl)]

\* db.add + db.commit: the table after the INSERT and COMMIT.  A violated
\* constraint fails the INSERT and the transaction is rolled back.
TableAfterCommit_NoRollback(tbl, rec) == tbl \cup {Inserted(tbl, rec)}

TableAfterCommit(tbl, rec) ==
  IF UniqueOK(tbl, rec) THEN tbl \cup {Inserted(tbl, rec)} ELSE tbl

\* UserResponse with from_attributes: id, username, email of the record.
UserResponse(rec) ==
  [id |-> rec.id, username |-> rec.username, email |-> rec.email]

\* get_db after the yield: try/finally closes the session whether or not
\* an exception was thrown into the generator.
get_db_exit_NoFinally(raised) == IF raised THEN "open" ELSE "closed"

get_db_exit(raised) == "closed"

\* -------------------------------------------------------------------- init

Init ==
  /\ users = {}
  /\ pc = [r \in Requests |-> "idle"]
  /\ user_data = [r \in Requests |-> NoBody]
  /\ new_user_record = [r \in Requests |-> NoRecord]
  /\ db = [r \in Requests |-> "none"]
  /\ status = [r \in Requests |-> 0]
  /\ uncaught = [r \in Requests |-> None]
  /\ response = [r \in Requests |-> NoResponse]

\* ----------------------------------------------------------------- actions

\* A request arrives: get_db opens a session, the body is validated against
\* UserCreate.  A malformed body is answered 422 by the framework and the
\* handler does not run.
Receive(r) ==
  /\ pc[r] = "idle"
  /\ \E d \in Bodies :
       /\ user_data' = [user_data EXCEPT ![r] = d]
       /\ IF UserCreate(d)
            THEN /\ pc' = [pc EXCEPT ![r] = "check"]
                 /\ status' = status
            ELSE /\ pc' = [pc EXCEPT ![r] = "close"]
                 /\ status' = [status EXCEPT ![r] = 422]
  /\ db' = [db EXCEPT ![r] = "open"]
  /\ UNCHANGED <<users, new_user_record, uncaught, response>>

\* Lines 86-104: the duplicate query; on a hit HTTPException(400), else the
\* password is hashed and the User object built.
CheckDuplicate(r) ==
  /\ pc[r] = "check"
  /\ IF existing_user(users, user_data[r])
       THEN /\ status' = [status EXCEPT ![r] = HTTP_400_BAD_REQUEST]
            /\ pc' = [pc EXCEPT ![r] = "close"]
            /\ new_user_record' = new_user_record
       ELSE /\ new_user_record' = [new_user_record EXCEPT ![r] = User(user_data[r])]
            /\ pc' = [pc EXCEPT ![r] = "commit"]
            /\ status' = status
  /\ UNCHANGED <<users, user_data, db, uncaught, response>>

\* Lines 107-108: db.add, db.commit.  On success the object gets its id.  On
\* a violated constraint IntegrityError is raised; nothing in the handler
\* catches it, so it leaves the handler and the server answers 500.
Commit(r) ==
  /\ pc[r] = "commit"
  /\ users' = TableAfterCommit(users, new_user_record[r])
  /\ IF UniqueOK(users, new_user_record[r])
       THEN /\ new_user_record' =
                 [new_user_record EXCEPT ![r] = Inserted(users, new_user_record[r])]
            /\ pc' = [pc EXCEPT ![r] = "refresh"]
            /\ UNCHANGED <<status, uncaught>>
       ELSE /\ uncaught' = [uncaught EXCEPT ![r] = "IntegrityError"]
            /\ status' = [status EXCEPT ![r] = 500]
            /\ pc' = [pc EXCEPT ![r] = "close"]
            /\ new_user_record' = new_user_record
  /\ UNCHANGED <<user_data, db, response>>

\* Lines 109-112: db.refresh reloads the row by primary key, the record is
\* returned and serialised as UserResponse with status 201.
Refresh(r) ==
  /\ pc[r] = "refresh"
  /\ \E row \in users :
       /\ row.id = new_user_record[r].id
       /\ new_user_record' = [new_user_record EXCEPT ![r] = row]
       /\ response' = [response EXCEPT ![r] = UserResponse(row)]
  /\ status' = [status EXCEPT ![r] = HTTP_201_CREATED]
  /\ pc' = [pc EXCEPT ![r] = "close"]
  /\ UNCHANGED <<users, user_data, db, uncaught>>

\* Lines 75-76: the generator is resumed (or the exception thrown into it)
\* and the finally block closes the session.
Close(r) ==
  /\ pc[r] = "close"
  /\ db' = [db EXCEPT ![r] = get_db_exit(status[r] >= 400)]
  /\ pc' = [pc EXCEPT ![r] = "done"]
  /\ UNCHANGED <<users, user_data, new_user_record, status, uncaught, response>>

\* The steps of the handler once a request has arrived.
Handle(r) == CheckDuplicate(r) \/ Commit(r) \/ Refresh(r) \/ Close(r)

Next ==
  \E r \in Requests :
    \/ Receive(r)
    \/ CheckDuplicate(r)
    \/ Commit(r)
    \/ Refresh(r)
    \/ Close(r)

Spec == Init /\ [][Next]_vars

\* A handler that has started runs to completion on its thread.
FairSpec == Spec /\ \A r \in Requests : WF_vars(Handle(r))

\* Requests one at a time: a request arrives only when no other is in flight.
InFlight(r) == pc[r] \notin {"idle", "done"}

SeqNext ==
  \E r \in Requests :
    \/ (\A q \in Requests : ~InFlight(q)) /\ Receive(r)
    \/ CheckDuplicate(r)
    \/ Commit(r)
    \/ Refresh(r)
    \/ Close(r)

SeqSpec == Init /\ [][SeqNext]_vars

\* ------------------------------------------------------- claim vocabulary

\* The request's User object was written to the table (it has its id).
Persisted(r) == new_user_record[r].id # NoId

\* The rows of the table that are not the request's own.
OtherRows(r) == IF Persisted(r) THEN users \ {new_user_record[r]} ELSE users

\* The request has its outcome (only the session is left to close).
Finished(r) == pc[r] \in {"close", "done"}

\* The failure statuses the program produces: 400 from the pre-check, 422
\* from validation, 500 for the exception that leaves the handler.
FailureStatuses == {400, 422, 500}

\* ------------------------------------------------------------------ claims

\* C1: two requests carrying the same email end, under every interleaving,
\* as one success (201) and one conflict response, with exactly one row of
\* that email in the table.  The conflict response is the 409 of the claim;
\* the 400 the pre-check answers (C3) is accepted as one too, so that only a
\* loser without any conflict response refutes the claim.
C1_OneSuccessOneConflict ==
  \A r1, r2 \in Requests :
    ( /\ r1 # r2
      /\ pc[r1] = "done" /\ pc[r2] = "done"
      /\ UserCreate(user_data[r1]) /\ UserCreate(user_data[r2])
      /\ user_data[r1].email = user_data[r2].email
      /\ \A q \in Requests \ {r1, r2} : user_data[q].email # user_data[r1].email )
    => /\ \E win, lose \in {r1, r2} :
            /\ win # lose
            /\ status[win] = HTTP_201_CREATED
            /\ status[lose] \in {409, HTTP_400_BAD_REQUEST}
            /\ uncaught[lose] = None
       /\ Cardinality({row \in users : row.email = user_data[r1].email}) = 1

\* C2: no two committed rows share an email, and no two share a username
\* (the two columns declared unique).
C2_UniqueColumns ==
  \A a, b \in users :
    a # b => a.email # b.email /\ a.username # b.username

\* C2 witness: a request raced past the pre-check with the email of a row
\* that another request committed, and the constraint refused it.
C2_Witness ==
  \E r \in Requests :
    /\ uncaught[r] = "IntegrityError"
    /\ \E row \in users :
         /\ row.email = user_data[r].email
         /\ row.username # user_data[r].username
    /\ Cardinality(users) = 1

\* What the pre-check does with a request whose email is the email of a
\* committed row: it ends the request with `code`, adds no row, and the
\* request keeps that outcome and never writes afterwards.
DuplicateEmailRejected(code) ==
  \A r \in Requests :
    /\ ( pc[r] = "check" /\ pc'[r] # "check"
         /\ \E row \in users : row.email = user_data[r].email )
       => /\ status'[r] = code
          /\ pc'[r] = "close"
          /\ users' = users
    /\ ( Finished(r) /\ status[r] = code /\ pc'[r] # pc[r] )
       => /\ status'[r] = code
          /\ users' = users
          /\ ~Persisted(r)'

\* C3 as stated: a request whose email equals that of a committed row ends
\* with 409 and adds no row.
C3_DuplicateEmailIs409 == [][DuplicateEmailRejected(409)]_vars

\* C3 amended: a request that passes validation and whose email equals that
\* of a committed row, whatever its username and password, ends with 400
\* and adds no row.
C3_DuplicateEmailIs400 == [][DuplicateEmailRejected(HTTP_400_BAD_REQUEST)]_vars

\* C3 witness: a finished request rejected for its email although its
\* username differs from that of the row holding the email.
C3_Witness ==
  \E r \in Requests :
    /\ pc[r] = "done"
    /\ status[r] = HTTP_400_BAD_REQUEST
    /\ \E row \in users :
         /\ row.email = user_data[r].email
         /\ row.username # user_data[r].username
    /\ Cardinality(users) = 1

\* C4: every request ends in a structured outcome (400, 409, 500, or the
\* framework's structured 422 for a malformed body); no exception leaves the
\* handler untranslated.
C4_NoUncaughtError ==
  \A r \in Requests :
    Finished(r) =>
      /\ uncaught[r] = None
      /\ status[r] \in {201, 400, 409, 422, 500}

\* C5: the pre-check rejects exactly when a committed row matches on a
\* uniquely-constrained column, so with requests one at a time a request
\* that passed the pre-check never violates a constraint at commit.
C5_PreCheckAgreesWithConstraints ==
  \A r \in Requests :
    /\ pc[r] = "check" =>
         (existing_user(users, user_data[r]) <=> ~UniqueOK(users, User(user_data[r])))
    /\ pc[r] = "commit" => UniqueOK(users, new_user_record[r])
    /\ uncaught[r] # "IntegrityError"

\* The outcome of a successful registration: status 201, the request's row
\* in the table holding the submitted fields, no other row with its email
\* or username, and the row returned with its id.
Registered(r) ==
  /\ status[r] = HTTP_201_CREATED
  /\ Persisted(r)
  /\ new_user_record[r] \in users
  /\ new_user_record[r].id \in Nat \ {NoId}
  /\ new_user_record[r].username = user_data[r].username
  /\ new_user_record[r].email = user_data[r].email
  /\ new_user_record[r].hashed_password = pwd_context_hash(user_data[r].password)
  /\ Cardinality({row \in users : row.email = user_data[r].email}) = 1
  /\ Cardinality({row \in users : row.username = user_data[r].username}) = 1
  /\ response[r] = [id |-> new_user_record[r].id,
                    username |-> user_data[r].username,
                    email |-> user_data[r].email]

C7_FailureLeavesTable ==
  /\ [](\A r \in Requests : status[r] \in FailureStatuses => ~Persisted(r))
  /\ [][\A r \in Requests :
          pc'[r] # pc[r] =>
            /\ status'[r] \in FailureStatuses => users' = users
            /\ users' # users =>
                 /\ ~Persisted(r)
                 /\ Persisted(r)'
                 /\ new_user_record'[r] \notin users
                 /\ users' = users \cup {new_user_record'[r]}
            /\ Persisted(r) => new_user_record'[r] = new_user_record[r]]_vars

\* C7 witness: one request committed its row, another failed at commit, and
\* the table holds the one row.
C7_Witness ==
  \E r1, r2 \in Requests :
    /\ pc[r1] = "done" /\ status[r1] = HTTP_201_CREATED
    /\ pc[r2] = "done" /\ status[r2] = 500
    /\ users = {new_user_record[r1]}

\* C8: a session is open exactly while its request is in flight, a closed
\* session stays closed, every open session is eventually closed, and a
\* finished request has no open session.
C8_SessionReleased ==
  /\ [](\A r \in Requests :
          /\ db[r] = "open" <=> InFlight(r)
          /\ pc[r] = "done" => db[r] = "closed")
  /\ [][\A r \in Requests : db[r] = "closed" => db'[r] = "closed"]_vars
  /\ \A r \in Requests : (db[r] = "open") ~> (db[r] = "closed")

\* C8 witness: all requests are done, one of them ended by the exception
\* raised at commit, and its session is closed.
C8_Witness ==
  /\ \A r \in Requests : pc[r] = "done" /\ db[r] = "closed"
  /\ \E r \in Requests : uncaught[r] = "IntegrityError"

\* C9: every committed row references a file that was written before the
\* row was committed.
C9_RowReferencesWrittenFile ==
  \A row \in users : "screenshot_filename" \in DOMAIN row

\* C10: the table only grows (no row is changed or removed), a new row gets
\* an id no existing row has, ids are positive integers set by the database
\* (the object has none before the commit), and distinct rows have distinct
\* ids.
C10_RowsImmutableIdsDistinct ==
  /\ [](\A a, b \in users : a.id = b.id => a = b)
  /\ [](\A row \in users : row.id \in Nat \ {NoId})
  /\ [](\A r \in Requests : pc[r] \in {"check", "commit"} => ~Persisted(r))
  /\ [][/\ users \subseteq users'
        /\ \A row \in users' \ users : \A old \in users : row.id > old.id]_vars

\* C10 witness: two rows are committed, with ids 1 and 2.
C10_Witness ==
  /\ Cardinality(users) >= 2
  /\ {1, 2} \subseteq {row.id : row \in users}

====
